---- MODULE Spec2Model ----
(***************************************************************************)
(* sphinxcontrib.openapi: the pipeline of openapi2httpdomain.              *)
(*                                                                         *)
(*   _resolve_refs    walks the document tree and replaces each mapping    *)
(*                    holding "$ref" by the object the pointer designates  *)
(*   _normalize_spec  resolves, then pushes each endpoint's top-level      *)
(*                    parameters into the endpoint's operations            *)
(*   openapi2httpdomain  normalizes, checks the requested paths, builds    *)
(*                    one generator of lines per (endpoint, method)        *)
(*                                                                         *)
(* The document is a Python object graph: `heap` maps an object identity   *)
(* to a mapping (ordered keys and values) or a list.  A value is a string: *)
(* an identity of `heap` (a reference to that object) or a scalar.         *)
(* Substitution stores the identity of the target, so aliasing is what the *)
(* program has.                                                            *)
(***************************************************************************)
EXTENDS Integers, Sequences, FiniteSets, TLC

VARIABLES
    heap,        \* identity -> [kind, keys, vals]: every dict and list alive
    spec,        \* openapi2httpdomain's `spec` (the caller's binding)
    options,     \* openapi2httpdomain's **options: [has |-> BOOLEAN, paths |-> Seq]
    pc,          \* position of the pipeline
    err,         \* the exception that ended the pipeline ("" while none)
    msg,         \* the set of paths the ValueError message lists
    stack,       \* the activations of _do_resolve: <<[node, i], ...>>
    ret,         \* the value _resolve_refs returned
    nspec,       \* _normalize_spec's local `spec` after line 263
    ei,          \* position of `for endpoint in spec['paths'].values()`
    endpoint,    \* the loop variable `endpoint`
    parameters,  \* the local `parameters` (value popped from the endpoint)
    mi,          \* position of `for method in endpoint.values()`
    generators,  \* the list `generators`: <<[endpoint, method, properties], ...>>
    gi,          \* itertools.chain: the generator being drained
    li,          \* lines already taken from generators[gi]
    lines,       \* the lines the consumer has received
    pass,        \* which application of _normalize_spec is running (1 or 2)
    heap0,       \* the document as given (history)
    hres,        \* the heap when _resolve_refs returned, first application (history)
    hnorm,       \* the heap when _normalize_spec returned, first application (history)
    calls,       \* recursive activations made: <<[parent, i, node], ...>> (history)
    subst        \* substitutions made: <<[parent, i, ref, value], ...>> (history)

vars == <<heap, spec, options, pc, err, msg, stack, ret, nspec, ei, endpoint,
          parameters, mi, generators, gi, li, lines, pass, heap0, hres, hnorm,
          calls, subst>>

(***************************************************************************)
(* Bounds of the model.                                                    *)
(***************************************************************************)
\* deepest nesting of _do_resolve the model follows (Python stops near 1000)
MaxStack == 8
\* longest `paths` option
MaxReq == 2

(***************************************************************************)
(* Objects.                                                                *)
(***************************************************************************)
None == "None"
EmptyList == "[]"               \* the fresh [] of pop's and get's default
Unresolvable == "RefResolutionError"

Map(ks, vs) == [kind |-> "map", keys |-> ks, vals |-> vs]
List(vs) == [kind |-> "list", keys |-> <<>>, vals |-> vs]

IsMapping(h, v) == v \in DOMAIN h /\ h[v].kind = "map"
IsList(h, v) == v \in DOMAIN h /\ h[v].kind = "list"
IsContainer(h, v) == v \in DOMAIN h

Has(s, k) == \E i \in 1..Len(s) : s[i] = k
IndexOf(s, k) == CHOOSE i \in 1..Len(s) : s[i] = k
HasKey(h, v, k) == IsMapping(h, v) /\ Has(h[v].keys, k)
Get(h, v, k) == h[v].vals[IndexOf(h[v].keys, k)]
Remove(s, i) == [j \in 1..(Len(s) - 1) |-> IF j < i THEN s[j] ELSE s[j + 1]]

\* isinstance(node, collections.Mapping) and '$ref' in node
IsRefNode(h, v) == HasKey(h, v, "$ref")

Range(s) == {s[i] : i \in DOMAIN s}

RECURSIVE ReachFrom(_, _)
\* the objects reachable from the values S through keys' values and elements
ReachFrom(h, S) ==
    LET N == S \cup UNION {Range(h[o].vals) : o \in S \cap DOMAIN h}
    IN  IF N = S THEN S ELSE ReachFrom(h, N)

(***************************************************************************)
(* jsonschema.RefResolver(uri, spec).resolving(ref), as _resolve_refs uses *)
(* it with uri = '': the URL part of the reference names the document (the *)
(* referrer `spec` for '', a remote document otherwise) and the fragment   *)
(* is a JSON pointer looked up in that document as it is now.              *)
(***************************************************************************)
\* urldefrag(ref): the document's URL
RefUrl(ref) == IF ref = "ext.yaml" THEN "ext.yaml" ELSE ""

\* urldefrag(ref): the fragment, split at "/"
RefParts(ref) ==
    CASE ref = "#/alt" -> <<"alt">>
      [] ref = "#/defs/ps" -> <<"defs", "ps">>
      [] ref = "#/defs/op1" -> <<"defs", "op1">>
      [] ref = "#/defs/op2" -> <<"defs", "op2">>
      [] ref = "#/defs/op1/parameters" -> <<"defs", "op1", "parameters">>
      [] ref = "#/paths/~1a" -> <<"paths", "~1a">>
      [] ref = "#/paths/~1a/get" -> <<"paths", "~1a", "get">>
      [] OTHER -> <<>>

\* part.replace('~1', '/').replace('~0', '~')
Unescape(part) == IF part = "~1a" THEN "/a" ELSE part

\* int(part) for the index of a sequence; -1 when part is no number
IntOf(part) == CASE part = "0" -> 0 [] part = "1" -> 1 [] OTHER -> -1

RECURSIVE ResolveFragment(_, _, _)
\* RefResolver.resolve_fragment(document, fragment)
ResolveFragment(h, document, parts) ==
    IF parts = <<>> THEN document
    ELSE LET part == Unescape(Head(parts))
         IN  IF HasKey(h, document, part)
               THEN ResolveFragment(h, Get(h, document, part), Tail(parts))
             ELSE IF IsList(h, document) /\ IntOf(part) >= 0
                     /\ IntOf(part) < Len(h[document].vals)
               THEN ResolveFragment(h, h[document].vals[IntOf(part) + 1], Tail(parts))
             ELSE Unresolvable

\* with resolver.resolving(node['$ref']) as resolved
Resolving(h, referrer, ref) ==
    IF RefUrl(ref) = "" THEN ResolveFragment(h, referrer, RefParts(ref))
    ELSE IF "@ext" \in DOMAIN h THEN ResolveFragment(h, "@ext", RefParts(ref))
    ELSE Unresolvable

(***************************************************************************)
(* The documents given to the pipeline.  A document is chosen by a record  *)
(* of independent choices; every mapping keeps its keys in source order    *)
(* (the loader builds OrderedDicts).  P1, P2, P3, Q1, P9 are parameters    *)
(* and R the responses of an operation.                                    *)
(***************************************************************************)
Ref(target) == Map(<<"$ref">>, <<target>>)

AllObjects(c) ==
    ("@root" :>
        (CASE c.root = "plain" ->
                (IF c.order = "paths-first"
                   THEN Map(<<"paths", "defs">>, <<"@paths", "@defs">>)
                   ELSE Map(<<"defs", "paths">>, <<"@defs", "@paths">>))
           [] c.root = "selfref" ->
                Map(<<"$ref", "paths", "alt">>, <<"#/alt", "@paths", "@ext">>)
           [] OTHER -> Ref("ext.yaml")))
    @@ ("@paths" :>
        (IF c.porder = "ab"
           THEN Map(<<"/a", "/b">>, <<"@epA", IF c.epb = "own" THEN "@epB" ELSE "@rB">>)
           ELSE Map(<<"/b", "/a">>, <<IF c.epb = "own" THEN "@epB" ELSE "@rB", "@epA">>)))
    @@ ("@epA" :>
        (IF c.epa = "absent"
           THEN Map(<<"get", "post">>,
                    <<IF c.get = "inline" THEN "@opI" ELSE "@rG",
                      IF c.post = "inline" THEN "@opJ" ELSE "@rP">>)
           ELSE Map(<<"parameters", "get", "post">>,
                    <<IF c.epa = "inline" THEN "@pA" ELSE "@rPA",
                      IF c.get = "inline" THEN "@opI" ELSE "@rG",
                      IF c.post = "inline" THEN "@opJ" ELSE "@rP">>)))
    @@ ("@pA" :> List(<<"P1">>))
    @@ ("@rPA" :> Ref(IF c.epa = "deep" THEN "#/defs/op1/parameters" ELSE "#/defs/ps"))
    @@ ("@opI" :> Map(<<"responses", "parameters">>, <<"R", "@pI">>))
    @@ ("@pI" :> List(<<"P2">>))
    @@ ("@opJ" :> Map(<<"responses">>, <<"R">>))
    @@ ("@rG" :> Ref(IF c.get = "ref2" THEN "#/defs/op2" ELSE "#/defs/op1"))
    @@ ("@rP" :> Ref("#/defs/op1"))
    @@ ("@epB" :> Map(<<"get">>, <<"@rBG">>))
    @@ ("@rBG" :> Ref("#/paths/~1a/get"))
    @@ ("@rB" :> Ref("#/paths/~1a"))
    @@ ("@defs" :>
        Map(<<"op1", "op2", "ps">>,
            <<IF c.op1 = "ref" THEN "@r1" ELSE "@op1",
              IF c.op2 = "ref" THEN "@r2" ELSE "@op2",
              "@ps">>))
    @@ ("@op1" :>
        (CASE c.op1 = "shared" -> Map(<<"responses", "parameters">>, <<"R", "@rps">>)
           [] c.op1 = "self" -> Map(<<"responses", "x-self">>, <<"R", "@rself">>)
           [] OTHER -> Map(<<"responses", "parameters">>, <<"R", "@p1">>)))
    @@ ("@p1" :> List(<<"P3">>))
    @@ ("@rps" :> Ref("#/defs/ps"))
    @@ ("@rself" :> Ref("#/defs/op1"))
    @@ ("@r1" :> Ref("#/defs/op2"))
    @@ ("@op2" :> Map(<<"responses">>, <<"R">>))
    @@ ("@r2" :> Ref("#/defs/op1"))
    @@ ("@ps" :> List(<<"Q1">>))
    @@ ("@ext" :> Map(<<"paths">>, <<"@pathsX">>))
    @@ ("@pathsX" :> Map(<<"/c">>, <<"@epC">>))
    @@ ("@epC" :> Map(<<"parameters", "get">>, <<"@pC", "@opC">>))
    @@ ("@pC" :> List(<<"P9">>))
    @@ ("@opC" :> Map(<<"responses">>, <<"R">>))

\* the objects of the document chosen by c (and of the remote document it names)
Document(c) ==
    LET all == AllObjects(c)
        live == ReachFrom(all, {"@root"} \cup (IF c.root = "extref" THEN {"@ext"} ELSE {}))
    IN  [o \in live \cap DOMAIN all |-> all[o]]

PlainChoices ==
    [root : {"plain"}, order : {"paths-first", "defs-first"}, porder : {"ab", "ba"},
     epa : {"absent", "inline", "ref", "deep"}, get : {"inline", "ref1", "ref2"},
     post : {"inline", "ref1"}, epb : {"own", "ref"},
     op1 : {"plain", "shared", "ref", "self"}, op2 : {"plain", "ref"}]

RootRefChoices ==
    [root : {"selfref", "extref"}, order : {"paths-first"}, porder : {"ab", "ba"},
     epa : {"inline"}, get : {"inline"}, post : {"inline"}, epb : {"own"},
     op1 : {"plain"}, op2 : {"plain"}]

Choices == PlainChoices \cup RootRefChoices

\* the values of the `paths` option: none given, or a sequence of paths
RequestPaths == {"/a", "/b", "/zz"}
Requests ==
    {[has |-> FALSE, paths |-> <<>>]}
    \cup {[has |-> TRUE, paths |-> q] :
            q \in UNION {[1..n -> RequestPaths] : n \in 0..MaxReq}}

Init ==
    /\ \E c \in Choices : heap = Document(c)
    /\ spec = "@root"
    /\ options = [has |-> FALSE, paths |-> <<>>]
    /\ pc = "start"
    /\ err = ""
    /\ msg = {}
    /\ stack = <<>>
    /\ ret = None
    /\ nspec = None
    /\ ei = 0
    /\ endpoint = None
    /\ parameters = None
    /\ mi = 0
    /\ generators = <<>>
    /\ gi = 0
    /\ li = 0
    /\ lines = <<>>
    /\ pass = 1
    /\ heap0 = heap
    /\ hres = heap
    /\ hnorm = heap
    /\ calls = <<>>
    /\ subst = <<>>

normVars == <<nspec, ei, endpoint, parameters, mi>>
renderVars == <<options, msg, generators, gi, li, lines>>
histVars == <<heap0, hnorm>>

\* an exception leaves the pipeline
Raise(e) == pc' = "failed" /\ err' = e

(***************************************************************************)
(* _resolve_refs: one activation of _do_resolve per entry of `stack`.      *)
(***************************************************************************)
Top == stack[Len(stack)]
Advance == [stack EXCEPT ![Len(stack)].i = @ + 1]

\* _resolve_refs returns r to line 263
Returned(r) ==
    /\ ret' = r
    /\ hres' = IF pass = 1 THEN heap' ELSE hres
    /\ pc' = "resolved"

\* line 70: return _do_resolve(spec), entered from line 263 by line 283
ResolveRefs ==
    /\ pc = "start"
    /\ IF IsRefNode(heap, spec)
         THEN LET r == Resolving(heap, spec, Get(heap, spec, "$ref"))
              IN  /\ heap' = heap
                  /\ IF r = Unresolvable
                       THEN Raise(Unresolvable) /\ UNCHANGED <<ret, hres, subst>>
                       ELSE /\ Returned(r)
                            /\ err' = err
                            /\ subst' = Append(subst,
                                   [parent |-> None, i |-> 0, ref |-> spec, value |-> r])
                  /\ UNCHANGED <<stack, calls>>
         ELSE IF IsContainer(heap, spec)
         THEN /\ stack' = <<[node |-> spec, i |-> 1]>>
              /\ calls' = Append(calls, [parent |-> None, i |-> 0, node |-> spec])
              /\ pc' = "walk"
              /\ UNCHANGED <<heap, err, ret, hres, subst>>
         ELSE /\ heap' = heap
              /\ Returned(spec)
              /\ UNCHANGED <<err, stack, calls, subst>>
    /\ UNCHANGED <<spec, pass, normVars, renderVars, histVars>>

\* (mutant) the substituted value gets an activation, as a container met in place
DoResolveRef_Descending ==
    /\ pc = "walk" /\ stack # <<>>
    /\ Top.i <= Len(heap[Top.node].vals)
    /\ Len(stack) < MaxStack
    /\ LET v == heap[Top.node].vals[Top.i]
           r == Resolving(heap, spec, Get(heap, v, "$ref"))
       IN  /\ IsRefNode(heap, v)
           /\ IF r = Unresolvable
                THEN Raise(Unresolvable) /\ UNCHANGED <<heap, stack, subst, calls>>
                ELSE /\ heap' = [heap EXCEPT ![Top.node].vals[Top.i] = r]
                     /\ IF IsContainer(heap, r) /\ ~IsRefNode(heap, r)
                          THEN /\ stack' = Append(stack, [node |-> r, i |-> 1])
                               /\ calls' = Append(calls,
                                      [parent |-> Top.node, i |-> Top.i, node |-> r])
                          ELSE stack' = Advance /\ calls' = calls
                     /\ subst' = Append(subst,
                            [parent |-> Top.node, i |-> Top.i, ref |-> v, value |-> r])
                     /\ UNCHANGED <<pc, err>>
    /\ UNCHANGED <<spec, pass, ret, hres, normVars, renderVars, histVars>>

\* lines 59-61 for the value at the activation's position: a mapping holding
\* '$ref' is replaced by what the reference resolves to; nothing descends into it
DoResolveRef ==
    /\ pc = "walk" /\ stack # <<>>
    /\ Top.i <= Len(heap[Top.node].vals)
    /\ LET v == heap[Top.node].vals[Top.i]
           r == Resolving(heap, spec, Get(heap, v, "$ref"))
       IN  /\ IsRefNode(heap, v)
           /\ IF r = Unresolvable
                THEN Raise(Unresolvable) /\ UNCHANGED <<heap, stack, subst>>
                ELSE /\ heap' = [heap EXCEPT ![Top.node].vals[Top.i] = r]
                     /\ stack' = Advance
                     /\ subst' = Append(subst,
                            [parent |-> Top.node, i |-> Top.i, ref |-> v, value |-> r])
                     /\ UNCHANGED <<pc, err>>
    /\ UNCHANGED <<spec, pass, ret, hres, calls, normVars, renderVars, histVars>>

\* (mutant) the test for a mapping comes before the test for '$ref'
DoResolveDescend_AnyMapping ==
    /\ pc = "walk" /\ stack # <<>>
    /\ Top.i <= Len(heap[Top.node].vals)
    /\ Len(stack) < MaxStack
    /\ LET v == heap[Top.node].vals[Top.i]
       IN  /\ IsContainer(heap, v)
           /\ stack' = Append(stack, [node |-> v, i |-> 1])
           /\ calls' = Append(calls, [parent |-> Top.node, i |-> Top.i, node |-> v])
    /\ UNCHANGED <<heap, spec, pass, pc, err, ret, hres, subst, normVars, renderVars,
                   histVars>>

\* lines 62-67 for the value at the activation's position: a mapping without
\* '$ref', a list or a tuple gets an activation of its own
DoResolveDescend ==
    /\ pc = "walk" /\ stack # <<>>
    /\ Top.i <= Len(heap[Top.node].vals)
    /\ Len(stack) < MaxStack
    /\ LET v == heap[Top.node].vals[Top.i]
       IN  /\ IsContainer(heap, v) /\ ~IsRefNode(heap, v)
           /\ stack' = Append(stack, [node |-> v, i |-> 1])
           /\ calls' = Append(calls, [parent |-> Top.node, i |-> Top.i, node |-> v])
    /\ UNCHANGED <<heap, spec, pass, pc, err, ret, hres, subst, normVars, renderVars,
                   histVars>>

\* line 68 for a scalar at the activation's position: node[k] = the scalar itself
DoResolveScalar ==
    /\ pc = "walk" /\ stack # <<>>
    /\ Top.i <= Len(heap[Top.node].vals)
    /\ ~IsContainer(heap, heap[Top.node].vals[Top.i])
    /\ stack' = Advance
    /\ UNCHANGED <<heap, spec, pass, pc, err, ret, hres, calls, subst, normVars,
                   renderVars, histVars>>

\* line 68: the loop of an activation is over and it returns its node; the caller
\* stores it at the position it came from (lines 64, 67), or line 70 returns it
DoResolveReturn ==
    /\ pc = "walk" /\ stack # <<>>
    /\ Top.i > Len(heap[Top.node].vals)
    /\ IF Len(stack) = 1
         THEN /\ stack' = <<>>
              /\ heap' = heap
              /\ Returned(Top.node)
         ELSE LET caller == stack[Len(stack) - 1]
              IN  /\ heap' = [heap EXCEPT ![caller.node].vals[caller.i] = Top.node]
                  /\ stack' = [SubSeq(stack, 1, Len(stack) - 1)
                                  EXCEPT ![Len(stack) - 1].i = @ + 1]
                  /\ UNCHANGED <<pc, ret, hres>>
    /\ UNCHANGED <<spec, pass, err, calls, subst, normVars, renderVars, histVars>>

(***************************************************************************)
(* _normalize_spec, lines 263-273.                                         *)
(***************************************************************************)
\* the identities a new list can get
FreshIds == <<"@n1", "@n2", "@n3", "@n4", "@n5", "@n6", "@n7", "@n8">>
NewId(h) == FreshIds[CHOOSE i \in 1..Len(FreshIds) :
                        /\ FreshIds[i] \notin DOMAIN h
                        /\ \A j \in 1..(i - 1) : FreshIds[j] \in DOMAIN h]

\* what list.extend(p) appends: the elements of a list, the keys of a mapping
\* (a str would give its characters; no document here has one in this place)
Items(h, p) ==
    IF IsList(h, p) THEN h[p].vals
    ELSE IF IsMapping(h, p) THEN h[p].keys
    ELSE <<>>

\* d.pop(k, default): the mapping without the key
Pop(o, k) == [o EXCEPT !.keys = Remove(@, IndexOf(o.keys, k)),
                       !.vals = Remove(@, IndexOf(o.keys, k))]

\* (mutant) endpoint.get('parameters', []): the key stays
PopParameters_Get(h, e) ==
    IF HasKey(h, e, "parameters")
      THEN [heap |-> h, value |-> Get(h, e, "parameters")]
      ELSE [heap |-> h, value |-> EmptyList]

\* line 270: endpoint.pop('parameters', [])
PopParameters(h, e) ==
    IF HasKey(h, e, "parameters")
      THEN [heap |-> [h EXCEPT ![e] = Pop(@, "parameters")],
            value |-> Get(h, e, "parameters")]
      ELSE [heap |-> h, value |-> EmptyList]

\* line 272: method.setdefault('parameters', [])
SetDefaultParameters(h, m) ==
    IF HasKey(h, m, "parameters") THEN h
    ELSE (NewId(h) :> List(<<>>))
         @@ [h EXCEPT ![m].keys = Append(@, "parameters"),
                      ![m].vals = Append(@, NewId(h))]

\* line 273: method['parameters'].extend(parameters)
ExtendParameters(h, m, p) ==
    [h EXCEPT ![Get(h, m, "parameters")].vals = @ \o Items(h, p)]

\* line 263 has rebound `spec`; line 269 evaluates spec['paths'].values()
NormalizeBegin ==
    /\ pc = "resolved"
    /\ nspec' = ret
    /\ IF ~IsMapping(heap, ret) THEN Raise("TypeError") /\ ei' = ei
       ELSE IF ~HasKey(heap, ret, "paths") THEN Raise("KeyError") /\ ei' = ei
       ELSE IF ~IsMapping(heap, Get(heap, ret, "paths"))
         THEN Raise("AttributeError") /\ ei' = ei
       ELSE pc' = "endpoints" /\ ei' = 1 /\ err' = err
    /\ UNCHANGED <<heap, spec, pass, stack, ret, hres, calls, subst, endpoint,
                   parameters, mi, renderVars, histVars>>

Endpoints == heap[Get(heap, nspec, "paths")].vals

\* lines 269-270: the next endpoint; its top-level parameters are popped
NormalizeEndpoint ==
    /\ pc = "endpoints"
    /\ ei <= Len(Endpoints)
    /\ LET e == Endpoints[ei]
           popped == PopParameters(heap, e)
       IN  IF ~IsMapping(heap, e)
             THEN /\ Raise(IF IsList(heap, e) THEN "TypeError" ELSE "AttributeError")
                  /\ UNCHANGED <<heap, endpoint, parameters, mi>>
             ELSE /\ heap' = popped.heap
                  /\ endpoint' = e
                  /\ parameters' = popped.value
                  /\ mi' = 1
                  /\ pc' = "methods"
                  /\ err' = err
    /\ UNCHANGED <<spec, pass, stack, ret, hres, calls, subst, nspec, ei, renderVars,
                   histVars>>

\* lines 271-273: the next value of the endpoint gets the parameters appended.
\* An OrderedDict that grew while it is iterated raises at the next step.
NormalizeMethod ==
    /\ pc = "methods"
    /\ mi <= Len(heap[endpoint].vals)
    /\ LET m == heap[endpoint].vals[mi]
           h1 == SetDefaultParameters(heap, m)
       IN  IF ~IsMapping(heap, m)
             THEN Raise("AttributeError") /\ UNCHANGED <<heap, mi>>
           ELSE IF ~IsList(h1, Get(h1, m, "parameters"))
             THEN Raise("AttributeError") /\ heap' = h1 /\ mi' = mi
           ELSE /\ heap' = ExtendParameters(h1, m, parameters)
                /\ IF m = endpoint /\ h1 # heap
                     THEN Raise("RuntimeError") /\ mi' = mi
                     ELSE mi' = mi + 1 /\ UNCHANGED <<pc, err>>
    /\ UNCHANGED <<spec, pass, stack, ret, hres, calls, subst, nspec, ei, endpoint,
                   parameters, renderVars, histVars>>

\* line 271: the endpoint has no more values
NormalizeEndpointDone ==
    /\ pc = "methods"
    /\ mi > Len(heap[endpoint].vals)
    /\ ei' = ei + 1
    /\ pc' = "endpoints"
    /\ UNCHANGED <<heap, spec, pass, err, stack, ret, hres, calls, subst, nspec,
                   endpoint, parameters, mi, renderVars, histVars>>

\* line 269: no more endpoints; _normalize_spec returns (None)
NormalizeReturn ==
    /\ pc = "endpoints"
    /\ ei > Len(Endpoints)
    /\ pc' = "normalized"
    /\ hnorm' = IF pass = 1 THEN heap ELSE hnorm
    /\ UNCHANGED <<heap, spec, pass, err, stack, ret, hres, calls, subst, normVars,
                   renderVars, heap0>>

\* _normalize_spec(spec) applied again to the tree it has normalized
NormalizeAgain ==
    /\ pc = "normalized"
    /\ pass = 1
    /\ pass' = 2
    /\ pc' = "start"
    /\ UNCHANGED <<heap, spec, err, stack, ret, hres, calls, subst, normVars,
                   renderVars, histVars>>

(***************************************************************************)
(* openapi2httpdomain after line 283: it goes on with its own `spec`.      *)
(***************************************************************************)
\* iterating a mapping gives its keys, iterating a list its elements
Iterate(h, v) == IF IsMapping(h, v) THEN h[v].keys ELSE h[v].vals

\* line 288: set(options['paths']).issubset(spec['paths'])
IsSubset(requested, defined) == Range(requested) \subseteq Range(defined)

\* (mutant) every requested path is listed
Undefined_AllRequested(requested, defined) == Range(requested)

\* line 291: set(options['paths']) - set(spec['paths'])
Undefined(requested, defined) == Range(requested) \ Range(defined)

\* lines 287-293; the `paths` option is read here first
CheckPaths ==
    /\ pc = "normalized"
    /\ pass = 1
    /\ \E o \in Requests :
        /\ options' = o
        /\ IF ~o.has THEN pc' = "checked" /\ UNCHANGED <<err, msg>>
           ELSE IF ~HasKey(heap, spec, "paths")
             THEN Raise("KeyError") /\ msg' = msg
           ELSE LET defined == Iterate(heap, Get(heap, spec, "paths"))
                IN  IF ~IsSubset(o.paths, defined)
                      THEN Raise("ValueError") /\ msg' = Undefined(o.paths, defined)
                      ELSE pc' = "checked" /\ UNCHANGED <<err, msg>>
    /\ UNCHANGED <<heap, spec, pass, stack, ret, hres, calls, subst, normVars,
                   generators, gi, li, lines, histVars>>

\* line 296: spec['paths'][endpoint].items(), one generator for each
ResourcesOf(h, paths, e) ==
    LET o == Get(h, paths, e)
    IN  [j \in 1..Len(h[o].keys) |->
            [endpoint |-> e, method |-> h[o].keys[j], properties |-> h[o].vals[j]]]

RECURSIVE Resources(_, _, _)
\* lines 295-297: generators, for the endpoints in the order iterated
Resources(h, paths, endpoints) ==
    IF endpoints = <<>> THEN <<>>
    ELSE ResourcesOf(h, paths, Head(endpoints)) \o Resources(h, paths, Tail(endpoints))

\* (mutant) the option is not looked at
Selected_AllPaths(h, o, paths) == Iterate(h, paths)

\* line 295: options.get('paths', spec['paths'])
Selected(h, o, paths) == IF o.has THEN o.paths ELSE Iterate(h, paths)

\* lines 295-299
BuildGenerators ==
    /\ pc = "checked"
    /\ IF ~HasKey(heap, spec, "paths")
         THEN Raise("KeyError") /\ UNCHANGED <<generators, gi, li>>
       ELSE LET paths == Get(heap, spec, "paths")
                sel == Selected(heap, options, paths)
            IN  IF \E j \in 1..Len(sel) : ~HasKey(heap, paths, sel[j])
                  THEN Raise("KeyError") /\ UNCHANGED <<generators, gi, li>>
                ELSE IF \E j \in 1..Len(sel) : ~IsMapping(heap, Get(heap, paths, sel[j]))
                  THEN Raise("AttributeError") /\ UNCHANGED <<generators, gi, li>>
                ELSE /\ generators' = Resources(heap, paths, sel)
                     /\ gi' = 1
                     /\ li' = 0
                     /\ pc' = "rendering"
                     /\ err' = err
    /\ UNCHANGED <<heap, spec, pass, stack, ret, hres, calls, subst, normVars,
                   options, msg, lines, histVars>>

\* _httpresource up to line 183: the heading of the operation; "body" stands for
\* the lines 185-255 yield after it
ResourceLines(g) ==
    <<[endpoint |-> g.endpoint, method |-> g.method, text |-> "api"],
      [endpoint |-> g.endpoint, method |-> g.method, text |-> "underline"],
      [endpoint |-> g.endpoint, method |-> g.method, text |-> "body"]>>

\* line 336 takes the next line of the chain; the generator starts with
\* lines 174-175 when its first line is asked for
NextLine ==
    /\ pc = "rendering"
    /\ gi <= Len(generators)
    /\ LET g == generators[gi]
       IN  /\ li < Len(ResourceLines(g))
           /\ IF li = 0 /\ ~IsMapping(heap, g.properties)
                THEN Raise("AttributeError") /\ UNCHANGED <<li, lines>>
              ELSE IF li = 0 /\ ~HasKey(heap, g.properties, "responses")
                THEN Raise("KeyError") /\ UNCHANGED <<li, lines>>
              ELSE /\ lines' = Append(lines, ResourceLines(g)[li + 1])
                   /\ li' = li + 1
                   /\ UNCHANGED <<pc, err>>
    /\ UNCHANGED <<heap, spec, pass, stack, ret, hres, calls, subst, normVars,
                   options, msg, generators, gi, histVars>>

\* itertools.chain: a generator is exhausted, the next one is taken
NextGenerator ==
    /\ pc = "rendering"
    /\ gi <= Len(generators)
    /\ li = Len(ResourceLines(generators[gi]))
    /\ gi' = gi + 1
    /\ li' = 0
    /\ UNCHANGED <<heap, spec, pass, pc, err, stack, ret, hres, calls, subst, normVars,
                   options, msg, generators, lines, histVars>>

\* itertools.chain: no generator is left, the loop of line 336 ends
Exhausted ==
    /\ pc = "rendering"
    /\ gi > Len(generators)
    /\ pc' = "done"
    /\ UNCHANGED <<heap, spec, pass, err, stack, ret, hres, calls, subst, normVars,
                   renderVars, histVars>>

\* openapi2httpdomain(spec, **options), its lines taken by the caller
Next ==
    \/ ResolveRefs
    \/ DoResolveRef
    \/ DoResolveDescend
    \/ DoResolveScalar
    \/ DoResolveReturn
    \/ NormalizeBegin
    \/ NormalizeEndpoint
    \/ NormalizeMethod
    \/ NormalizeEndpointDone
    \/ NormalizeReturn
    \/ CheckPaths
    \/ BuildGenerators
    \/ NextLine
    \/ NextGenerator
    \/ Exhausted

Spec == Init /\ [][Next]_vars

\* _normalize_spec(spec) twice
NextTwice ==
    \/ ResolveRefs
    \/ DoResolveRef
    \/ DoResolveDescend
    \/ DoResolveScalar
    \/ DoResolveReturn
    \/ NormalizeBegin
    \/ NormalizeEndpoint
    \/ NormalizeMethod
    \/ NormalizeEndpointDone
    \/ NormalizeReturn
    \/ NormalizeAgain

SpecTwice == Init /\ [][NextTwice]_vars

\* _resolve_refs(uri, spec) alone; the program is sequential, so a step that can
\* be taken is taken
NextResolve ==
    \/ ResolveRefs
    \/ DoResolveRef
    \/ DoResolveDescend
    \/ DoResolveScalar
    \/ DoResolveReturn

SpecResolve == Init /\ [][NextResolve]_vars /\ WF_vars(NextResolve)

(***************************************************************************)
(* What the claims speak of.                                               *)
(***************************************************************************)
\* the Reference Nodes of the tree under the values S
RefNodesOf(h, S) == {o \in ReachFrom(h, S) : IsRefNode(h, o)}

\* the Reference Nodes of the document as given
InputRefs == RefNodesOf(heap0, {spec})

\* the node a Reference Node designates in h
TargetOf(h, r) == Resolving(h, spec, Get(h, r, "$ref"))

\* reference graph of the document as given: r -> every Reference Node in the
\* subtree r designates (the designated node included)
RefSucc(r) ==
    IF TargetOf(heap0, r) = Unresolvable THEN {}
    ELSE RefNodesOf(heap0, {TargetOf(heap0, r)})

RECURSIVE RefDesc(_)
RefDesc(S) ==
    LET N == S \cup UNION {RefSucc(r) : r \in S}
    IN  IF N = S THEN S ELSE RefDesc(N)

CyclicInput == \E r \in InputRefs : r \in RefDesc(RefSucc(r))
AllPointersExist == \A r \in InputRefs : TargetOf(heap0, r) # Unresolvable

\* some object of the tree under v contains itself
ContainsItself(h, v) ==
    \E o \in ReachFrom(h, {v}) \cap DOMAIN h : o \in ReachFrom(h, Range(h[o].vals))

ParametersOf(h, o) ==
    IF HasKey(h, o, "parameters") THEN Items(h, Get(h, o, "parameters")) ELSE <<>>

\* the endpoints of the tree _normalize_spec works on, in order
EndpointsOf(h) == h[Get(h, nspec, "paths")].vals

\* C1: after _resolve_refs has returned for a document with an acyclic reference
\* graph whose pointers all designate existing nodes, no node reachable from the
\* returned root is a mapping containing "$ref".
C1_ResolutionComplete ==
    (pc = "resolved" /\ pass = 1 /\ ~CyclicInput /\ AllPointersExist)
        => RefNodesOf(heap, {ret}) = {}

\* C2: after _normalize_spec, for every endpoint E and every operation O of E,
\* O.parameters is O's own parameters before normalization followed by E's
\* top-level parameters before normalization.
C2_Hoisting ==
    (pc = "normalized" /\ pass = 1) =>
        \A j \in 1..Len(EndpointsOf(hres)) :
            LET E == EndpointsOf(hres)[j]
            IN  \A k \in 1..Len(hres[E].keys) :
                    hres[E].keys[k] # "parameters" =>
                        ParametersOf(heap, hres[E].vals[k])
                            = ParametersOf(hres, hres[E].vals[k]) \o ParametersOf(hres, E)

\* C3: a second application of _normalize_spec leaves no endpoint with a top-level
\* `parameters` key and leaves the parameter list of every operation as the first
\* application made it.
C3_Idempotent ==
    (pc = "normalized" /\ pass = 2) =>
        /\ Len(EndpointsOf(heap)) = Len(EndpointsOf(hnorm))
        /\ \A j \in 1..Len(EndpointsOf(heap)) :
            LET E2 == EndpointsOf(heap)[j]
                E1 == EndpointsOf(hnorm)[j]
            IN  /\ ~HasKey(heap, E2, "parameters")
                /\ Len(heap[E2].vals) = Len(hnorm[E1].vals)
                /\ \A k \in 1..Len(heap[E2].vals) :
                        ParametersOf(heap, heap[E2].vals[k])
                            = ParametersOf(hnorm, hnorm[E1].vals[k])

\* C4: once _normalize_spec has returned, no endpoint under `paths` has the key
\* `parameters`, and every value of an endpoint has a `parameters` key that holds
\* a sequence.
C4_Shape ==
    pc = "normalized" =>
        \A j \in 1..Len(EndpointsOf(heap)) :
            LET E == EndpointsOf(heap)[j]
            IN  /\ IsMapping(heap, E)
                /\ \A k \in 1..Len(heap[E].keys) : heap[E].keys[k] # "parameters"
                /\ \A k \in 1..Len(heap[E].vals) :
                        /\ HasKey(heap, heap[E].vals[k], "parameters")
                        /\ IsList(heap, Get(heap, heap[E].vals[k], "parameters"))

C4_Witness ==
    /\ pc = "normalized"
    /\ \E j \in 1..Len(EndpointsOf(hres)) :
        LET E == EndpointsOf(hres)[j]
        IN  /\ HasKey(hres, E, "parameters")
            /\ \E k \in 1..Len(hres[E].vals) :
                    /\ hres[E].keys[k] # "parameters"
                    /\ ~HasKey(hres, hres[E].vals[k], "parameters")
                    /\ ParametersOf(heap, hres[E].vals[k]) # <<>>

\* the keys of the `paths` mapping openapi2httpdomain looks at
DefinedPaths == heap[Get(heap, spec, "paths")].keys
Requested(p) == \E i \in 1..Len(options.paths) : options.paths[i] = p
Defined(p) == \E i \in 1..Len(DefinedPaths) : DefinedPaths[i] = p

\* C5: with an explicit `paths` option openapi2httpdomain fails with the error of
\* line 289 if and only if a requested path is no key of `paths`; the error lists
\* exactly the requested paths that are not defined; with every requested path
\* defined the check raises nothing.
C5_UnknownPaths ==
    (options.has /\ HasKey(heap, spec, "paths")) =>
        IF \E p \in RequestPaths : Requested(p) /\ ~Defined(p)
          THEN /\ pc = "failed" /\ err = "ValueError"
               /\ msg = {p \in RequestPaths : Requested(p) /\ ~Defined(p)}
          ELSE /\ err # "ValueError"
               /\ msg = {}
               /\ ~(pc = "failed" /\ gi = 0)

C5_Witness ==
    /\ options.has /\ HasKey(heap, spec, "paths")
    /\ err = "ValueError"
    /\ Len(options.paths) = 2
    /\ Defined(options.paths[1]) /\ ~Defined(options.paths[2])
    /\ msg = {options.paths[2]}

\* the endpoints rendered, in order: the requested sequence, or the keys of `paths`
RenderedPaths == IF options.has THEN options.paths ELSE DefinedPaths
MethodsOf(e) == heap[Get(heap, Get(heap, spec, "paths"), e)].keys
RECURSIVE Before(_)
\* the number of operations of the endpoints rendered before the a-th
Before(a) == IF a <= 1 THEN 0 ELSE Before(a - 1) + Len(MethodsOf(RenderedPaths[a - 1]))
LinesPerOperation == Len(ResourceLines([endpoint |-> "", method |-> ""]))

\* C6: the operations rendered follow the order of the keys of `paths` (every
\* endpoint once) or, with a `paths` option, the order requested; inside an endpoint
\* they follow the order of its method keys; the lines of one operation all come
\* before the lines of the next.
C6_Order ==
    pc \in {"rendering", "done"} =>
        /\ Len(generators) = Before(Len(RenderedPaths) + 1)
        /\ \A a \in 1..Len(RenderedPaths) :
            \A b \in 1..Len(MethodsOf(RenderedPaths[a])) :
                /\ generators[Before(a) + b].endpoint = RenderedPaths[a]
                /\ generators[Before(a) + b].method = MethodsOf(RenderedPaths[a])[b]
        /\ \A n \in 1..Len(lines) :
                /\ lines[n].endpoint
                     = generators[((n - 1) \div LinesPerOperation) + 1].endpoint
                /\ lines[n].method
                     = generators[((n - 1) \div LinesPerOperation) + 1].method
        /\ pc = "done" => Len(lines) = LinesPerOperation * Len(generators)

C6_Witness ==
    /\ pc = "done"
    /\ ~options.has
    /\ DefinedPaths = <<"/b", "/a">>
    /\ Len(generators) = 3
    /\ generators[1].endpoint = "/b"
    /\ generators[2] = [endpoint |-> "/a", method |-> "get",
                        properties |-> generators[2].properties]
    /\ generators[3].method = "post"
    /\ Len(lines) = Len(generators) * LinesPerOperation

\* C7: the tree openapi2httpdomain checks and renders is the tree _resolve_refs
\* returned: every operation rendered is an operation of an endpoint of the
\* returned tree.
C7_RendersReturnedTree ==
    pc \in {"rendering", "done"} =>
        /\ HasKey(heap, ret, "paths")
        /\ Get(heap, spec, "paths") = Get(heap, ret, "paths")
        /\ \A n \in 1..Len(generators) :
            \E j \in 1..Len(heap[Get(heap, ret, "paths")].vals) :
                generators[n].properties
                    \in Range(heap[heap[Get(heap, ret, "paths")].vals[j]].vals)

\* the containers of the document as given
InputContainers == ReachFrom(heap0, {spec}) \cap DOMAIN heap0

C10_Aliasing ==
    (pc = "resolved" /\ pass = 1) =>
        \A n \in 1..Len(subst) :
            LET s == subst[n]
            IN  IF s.parent = None THEN ret = TargetOf(heap, s.ref)
                ELSE heap[s.parent].vals[s.i] = TargetOf(heap, s.ref)

====
